---------------------------- MODULE Spec2Model ----------------------------
(***************************************************************************)
(* Model of newscript.js: a three.js scene with a video backdrop plane, a  *)
(* bracelet model loaded asynchronously, and a MediaPipe hand landmarker   *)
(* driven by the video element's per-frame callback.                       *)
(*                                                                         *)
(* Numbers.  World coordinates, the plane geometry and the model position  *)
(* are fixed-point integers in units of 1/Unit.  Window and scene sizes    *)
(* are whole pixels.  A landmark coordinate in [0,1] is an integer number  *)
(* of 1/LandmarkScale.  The camera aspect is the reduced fraction          *)
(* <<numerator, denominator>>.  Additions that cannot be represented are   *)
(* rounded to the nearest unit, ties to even, as the floating-point        *)
(* arithmetic of the program rounds at its own precision.                  *)
(***************************************************************************)
EXTENDS Integers, Sequences, FiniteSets, TLC

\* ---------------------------------------------------------------- bounds
\* Number of video frames delivered in a run.
MaxTime == 3

\* Window sizes <<innerWidth, innerHeight>> the browser may report.  The
\* heights are multiples of 9, so that height * 1280 / 720 is a whole number.
WindowSizes == {<<1280, 720>>, <<1000, 540>>}

\* Number of updates of the smoothing runs, and the x and y coordinates (in
\* 1/Unit) their start positions and targets are drawn from.
MaxUpdates == 6
SmoothCoordinates == -5..5

\* Wrist landmarks <<x, y>> the detector may report, in 1/LandmarkScale.
Landmarks == {<<0, 0>>, <<5, 5>>, <<6, 4>>}

\* ------------------------------------------------------------- numerics
Unit == 1000
LandmarkScale == 10

Abs(n) == IF n < 0 THEN -n ELSE n

\* n / d for d > 0, rounded to the nearest integer, ties to even.
RoundDiv(n, d) ==
  LET q == n \div d
      r == n % d
  IN  IF 2 * r < d THEN q
      ELSE IF 2 * r > d THEN q + 1
      ELSE IF q % 2 = 0 THEN q ELSE q + 1

RECURSIVE GCD(_, _)
GCD(a, b) == IF b = 0 THEN a ELSE GCD(b, a % b)

\* The number w / h as a reduced fraction.
Ratio(w, h) == <<w \div GCD(w, h), h \div GCD(w, h)>>

\* Values of different shapes are told apart by a tag: an object is a record
\* with a ref field, a detection result a record with a kind field.
Null == [ref |-> "null"]
NoVector == <<>>
Zero3 == <<0, 0, 0>>

\* ------------------------------------------------------- ViewportGeometry
\* Math.tan(THREE.MathUtils.degToRad(0.5 * fov)), in 1/Unit, for the only
\* field of view the program uses.
TanHalfFov(fov) == CASE fov = 60 -> 577

\* getViewportSizeAtDepth(camera, depth): <<width, height>> in 1/Unit.
getViewportSizeAtDepth(camera, depth) ==
  LET viewportHeight == RoundDiv(2 * depth * TanHalfFov(camera.fov), Unit)
      viewportWidth  == RoundDiv(viewportHeight * camera.aspect[1], camera.aspect[2])
  IN  <<viewportWidth, viewportHeight>>

\* createCameraPlaneMesh(camera, depth, material): the plane's geometry.
createCameraPlaneMesh(camera, depth) ==
  LET viewportSize == getViewportSizeAtDepth(camera, depth)
  IN  [width   |-> viewportSize[1],
       height  |-> viewportSize[2],
       z       |-> -depth,
       clipped |-> (camera.near > depth \/ depth > camera.far)]

\* ------------------------------------------------------------- constants
CameraFov == 60
CameraNear == 10            \* 0.01 in 1/Unit
CameraFar == 5000000        \* 5000 in 1/Unit
inputFramesDepth == 500000  \* 500 in 1/Unit
WristDepth == 500000        \* the literal -500 of the wrist position
BraceletScale == 100        \* 0.1 in 1/Unit
LerpAlpha == 500            \* 0.5 in 1/Unit
RotationPi == <<0, 0, 180>> \* rotation.set(0, 0, Math.PI), in degrees

\* ----------------------------------------------------------------- state
VARIABLES
  window,               \* <<innerWidth, innerHeight>> of the browser window
  width, height,        \* BasicScene.width, BasicScene.height
  camera,               \* [fov, aspect, near, far, projection]
  rendererSize,         \* size given to renderer.setSize
  inputFramesPlane,     \* geometry of the video backdrop plane
  sceneChildren,        \* objects added to scene.scene
  animationFrames,      \* pending requestAnimationFrame callbacks
  canvas,               \* what the last renderer.render call drew
  loadState,            \* GLTFLoader.load: "loading", "loaded", "failed"
  braceletModel,        \* Null or [ref, position, rotation, scale]
  handLandmarker,       \* Null or [ref, configured]
  stream,               \* videoElement.srcObject is set
  videoFrameCallbacks,  \* pending requestVideoFrameCallback callbacks
  pc,                   \* position of runDemo
  time,                 \* number of video frames delivered
  landmarks,            \* what the last frame's detection did
  wristPosition,        \* the vector built in the last frame, or NoVector
  targetRange,          \* history: per coordinate, the least and greatest of
                        \* the origin and the vectors given to a loaded model
  lastEvent             \* the handler that ran last

vars == <<window, width, height, camera, rendererSize, inputFramesPlane,
          sceneChildren, animationFrames, canvas, loadState, braceletModel,
          handLandmarker, stream, videoFrameCallbacks, pc, time, landmarks,
          wristPosition, targetRange, lastEvent>>

sceneVars == <<window, width, height, camera, rendererSize, inputFramesPlane,
               animationFrames, canvas>>
braceletVars == <<loadState, braceletModel, sceneChildren>>
demoVars == <<handLandmarker, stream, videoFrameCallbacks, pc>>
frameVars == <<time, landmarks, wristPosition, targetRange>>

\* ------------------------------------------------------------ BasicScene
\* new THREE.PerspectiveCamera(fov, aspect, near, far); the constructor
\* computes the projection from the aspect.
PerspectiveCamera(fov, aspect, near, far) ==
  [fov |-> fov, aspect |-> aspect, near |-> near, far |-> far,
   projection |-> aspect]

\* renderer.render(scene, camera): the picture drawn, as the output size, the
\* projection and the bracelet model in the scene (Null when there is none).
draw(size, cam, model) == [size |-> size, projection |-> cam.projection, model |-> model]

\* BasicScene.constructor, followed by new Bracelet(...) and the part of
\* runDemo() that runs before its first await.
Init ==
  /\ window \in WindowSizes
  /\ height = window[2]
  /\ width = (height * 1280) \div 720
  /\ camera = PerspectiveCamera(CameraFov, Ratio(width, height), CameraNear, CameraFar)
  /\ rendererSize = <<width, height>>
  /\ inputFramesPlane = createCameraPlaneMesh(camera, inputFramesDepth)
  /\ sceneChildren = {"ambientLight", "directionalLight", "inputFramesPlane"}
  /\ animationFrames = 1
  /\ canvas = draw(rendererSize, camera, Null)
  /\ loadState = "loading"
  /\ braceletModel = Null
  /\ handLandmarker = Null
  /\ stream = FALSE
  /\ videoFrameCallbacks = 0
  /\ pc = "getUserMedia"
  /\ time = 0
  /\ landmarks = [kind |-> "noframe"]
  /\ wristPosition = NoVector
  /\ targetRange = [lo |-> Zero3, hi |-> Zero3]
  /\ lastEvent = "constructor"

\* Variant: the aspect is scaled by the new ratio instead of being set to it.
resizeSceneDrifting(win, cam) ==
  LET w == win[1]
      h == win[2]
      a == Ratio(cam.aspect[1] * w, cam.aspect[2] * h)
  IN  [width |-> w, height |-> h,
       camera |-> [cam EXCEPT !.aspect = a, !.projection = a],
       rendererSize |-> <<w, h>>]

\* BasicScene.resize as a function of the window size: the new
\* <<width, height, camera, rendererSize>>.
resizeScene(win, cam) ==
  LET w == win[1]
      h == win[2]
  IN  [width |-> w, height |-> h,
       camera |-> [cam EXCEPT !.aspect = Ratio(w, h), !.projection = Ratio(w, h)],
       rendererSize |-> <<w, h>>]

\* Variant: the listener also rebuilds the backdrop plane for the new camera.
resizeRebuildingPlane ==
  \E win \in WindowSizes :
    LET s == resizeScene(win, camera)
    IN  /\ window' = win
        /\ width' = s.width
        /\ height' = s.height
        /\ camera' = s.camera
        /\ rendererSize' = s.rendererSize
        /\ inputFramesPlane' = createCameraPlaneMesh(s.camera, inputFramesDepth)
        /\ canvas' = draw(s.rendererSize, s.camera, braceletModel)
        /\ lastEvent' = "resize"
        /\ UNCHANGED animationFrames
        /\ UNCHANGED <<braceletVars, demoVars, frameVars>>

\* Variant: the listener draws by calling this.render(), which also requests
\* an animation frame.
resizeStartingRenderLoop ==
  \E win \in WindowSizes :
    LET s == resizeScene(win, camera)
    IN  /\ window' = win
        /\ width' = s.width
        /\ height' = s.height
        /\ camera' = s.camera
        /\ rendererSize' = s.rendererSize
        /\ canvas' = draw(s.rendererSize, s.camera, braceletModel)
        /\ animationFrames' = animationFrames + 1
        /\ lastEvent' = "resize"
        /\ UNCHANGED inputFramesPlane
        /\ UNCHANGED <<braceletVars, demoVars, frameVars>>

\* The window changes size (or reports the same size again) and the resize
\* listener runs.
resize ==
  \E win \in WindowSizes :
    LET s == resizeScene(win, camera)
    IN  /\ window' = win
        /\ width' = s.width
        /\ height' = s.height
        /\ camera' = s.camera
        /\ rendererSize' = s.rendererSize
        /\ canvas' = draw(s.rendererSize, s.camera, braceletModel)
        /\ lastEvent' = "resize"
        /\ UNCHANGED <<inputFramesPlane, animationFrames>>
        /\ UNCHANGED <<braceletVars, demoVars, frameVars>>

\* BasicScene.render: the pending animation-frame callback runs, registers
\* itself again and draws.
render ==
  /\ animationFrames > 0
  /\ animationFrames' = (animationFrames - 1) + 1
  /\ canvas' = draw(rendererSize, camera, braceletModel)
  /\ lastEvent' = "render"
  /\ UNCHANGED <<window, width, height, camera, rendererSize, inputFramesPlane>>
  /\ UNCHANGED <<braceletVars, demoVars, frameVars>>


\* --------------------------------------------------------------- Bracelet
\* The object GLTFLoader hands to the success callback: gltf.scene, a fresh
\* group at the origin, unrotated, with unit scale.
GltfScene == [ref |-> "gltf.scene", position |-> Zero3, rotation |-> Zero3, scale |-> <<Unit, Unit, Unit>>]

\* Variant: the loaded model is stored and scaled but not added to the scene.
loadModelSuccessNotAdded ==
  /\ loadState = "loading"
  /\ loadState' = "loaded"
  /\ braceletModel' = [GltfScene EXCEPT
                         !.scale = <<BraceletScale, BraceletScale, BraceletScale>>]
  /\ lastEvent' = "load"
  /\ UNCHANGED <<sceneChildren, sceneVars, demoVars, frameVars>>

\* Variant: the loaded model is put at once where the last frame saw the
\* wrist.
loadModelSuccessAtLastWrist ==
  /\ loadState = "loading"
  /\ loadState' = "loaded"
  /\ braceletModel' = [GltfScene EXCEPT
                         !.position = IF wristPosition # NoVector
                                        THEN wristPosition ELSE Zero3,
                         !.scale = <<BraceletScale, BraceletScale, BraceletScale>>]
  /\ sceneChildren' = sceneChildren \cup {"braceletModel"}
  /\ lastEvent' = "load"
  /\ UNCHANGED <<sceneVars, demoVars, frameVars>>

\* Success callback of loader.load in Bracelet.loadModel.
loadModelSuccess ==
  /\ loadState = "loading"
  /\ loadState' = "loaded"
  /\ braceletModel' = [GltfScene EXCEPT
                         !.scale = <<BraceletScale, BraceletScale, BraceletScale>>]
  /\ sceneChildren' = sceneChildren \cup {"braceletModel"}
  /\ lastEvent' = "load"
  /\ UNCHANGED <<sceneVars, demoVars, frameVars>>

\* Error callback of loader.load in Bracelet.loadModel: logs only.
loadModelError ==
  /\ loadState = "loading"
  /\ loadState' = "failed"
  /\ lastEvent' = "loadError"
  /\ UNCHANGED <<braceletModel, sceneChildren>>
  /\ UNCHANGED <<sceneVars, demoVars, frameVars>>

\* Variant: the step is one and a half times the smoothing factor, more than
\* the whole distance.
lerpCoordinateOvershooting(a, b, alpha) ==
  RoundDiv(a * Unit + (b - a) * 3 * alpha, Unit)

\* One coordinate of THREE.Vector3.lerp: a += (b - a) * alpha.  The product is
\* exact and the sum is rounded to the nearest representable value, ties to
\* even.
lerpCoordinate(a, b, alpha) == RoundDiv(a * Unit + (b - a) * alpha, Unit)

\* Variant: the vector is copied instead of interpolated.
lerpCopy(p, v, alpha) == v

\* THREE.Vector3.lerp(v, alpha) applied to p.
lerp(p, v, alpha) == [i \in 1..3 |-> lerpCoordinate(p[i], v[i], alpha)]

\* Variant: a model that was never placed is put on the wrist directly.
placeBraceletOnWristSnapFirst(model, wrist) ==
  IF model # Null
    THEN [model EXCEPT
            !.position = IF model.rotation = Zero3
                           THEN wrist
                           ELSE lerp(model.position, wrist, LerpAlpha),
            !.rotation = RotationPi]
    ELSE model

\* Variant: the interpolation is applied twice in one call.
placeBraceletOnWristTwice(model, wrist) ==
  IF model # Null
    THEN [model EXCEPT
            !.position = lerp(lerp(model.position, wrist, LerpAlpha), wrist, LerpAlpha),
            !.rotation = RotationPi]
    ELSE model

\* Bracelet.placeBraceletOnWrist: the new value of braceletModel.
placeBraceletOnWrist(model, wrist) ==
  IF model # Null
    THEN [model EXCEPT !.position = lerp(model.position, wrist, LerpAlpha),
                       !.rotation = RotationPi]
    ELSE model

\* ---------------------------------------------------------- frame handler
\* What handLandmarker.detectForVideo may do with a frame: throw, return a
\* result without a wrist, or return a wrist landmark.
DetectorOutcomes ==
  {[kind |-> "throw"], [kind |-> "nowrist"]}
    \cup {[kind |-> "wrist", x |-> l[1], y |-> l[2]] : l \in Landmarks}

\* Variant: the coordinate is not centred on the optical axis.
centredNot(c, extent) ==
  RoundDiv(2 * c * extent * Unit, 2 * LandmarkScale)

\* (c - 0.5) * extent for a landmark coordinate c in 1/LandmarkScale and an
\* extent in pixels; the result in 1/Unit.
centred(c, extent) ==
  RoundDiv((2 * c - LandmarkScale) * extent * Unit, 2 * LandmarkScale)

\* Variant: the vector is put at the depth of the orbit-controls target.
wristVectorNear(wristLandmark, w, h) ==
  << centred(wristLandmark.x, w), -centred(wristLandmark.y, h), -(5 * Unit) >>

\* new THREE.Vector3(...) of detectHandLandmarks.
wristVector(wristLandmark, w, h) ==
  << centred(wristLandmark.x, w), -centred(wristLandmark.y, h), -WristDepth >>

\* Variant: a frame without a wrist sends the bracelet back to the origin.
detectHandLandmarksResetOnMiss(detector, outcome, w, h, model) ==
  IF detector = Null
    THEN [called |-> FALSE, threw |-> FALSE, landmarks |-> [kind |-> "dropped"],
          wristPosition |-> NoVector, braceletModel |-> model]
  ELSE IF outcome.kind = "throw"
    THEN [called |-> TRUE, threw |-> TRUE, landmarks |-> outcome,
          wristPosition |-> NoVector, braceletModel |-> model]
  ELSE IF outcome.kind = "wrist"
    THEN LET wrist == wristVector(outcome, w, h)
         IN  [called |-> TRUE, threw |-> FALSE, landmarks |-> outcome,
              wristPosition |-> wrist,
              braceletModel |-> placeBraceletOnWrist(model, wrist)]
  ELSE [called |-> TRUE, threw |-> FALSE, landmarks |-> outcome,
        wristPosition |-> NoVector,
        braceletModel |-> IF model = Null THEN model
                          ELSE [model EXCEPT !.position = Zero3]]

\* Variant: the bracelet is placed without testing that the model is loaded,
\* so a wrist frame that finds no model throws.
detectHandLandmarksUnguarded(detector, outcome, w, h, model) ==
  IF detector = Null
    THEN [called |-> FALSE, threw |-> FALSE, landmarks |-> [kind |-> "dropped"],
          wristPosition |-> NoVector, braceletModel |-> model]
  ELSE IF outcome.kind = "throw"
    THEN [called |-> TRUE, threw |-> TRUE, landmarks |-> outcome,
          wristPosition |-> NoVector, braceletModel |-> model]
  ELSE IF outcome.kind = "wrist"
    THEN LET wrist == wristVector(outcome, w, h)
         IN  [called |-> TRUE, threw |-> (model = Null), landmarks |-> outcome,
              wristPosition |-> wrist,
              braceletModel |-> placeBraceletOnWrist(model, wrist)]
  ELSE [called |-> TRUE, threw |-> FALSE, landmarks |-> outcome,
        wristPosition |-> NoVector, braceletModel |-> model]

\* detectHandLandmarks(time) for a given behaviour of the detector: whether
\* detectForVideo was called, whether the function threw, the landmarks
\* it saw, the vector it built and the new braceletModel.
detectHandLandmarks(detector, outcome, w, h, model) ==
  IF detector = Null
    THEN [called |-> FALSE, threw |-> FALSE, landmarks |-> [kind |-> "dropped"],
          wristPosition |-> NoVector, braceletModel |-> model]
  ELSE IF outcome.kind = "throw"
    THEN [called |-> TRUE, threw |-> TRUE, landmarks |-> outcome,
          wristPosition |-> NoVector, braceletModel |-> model]
  ELSE IF outcome.kind = "wrist"
    THEN LET wrist == wristVector(outcome, w, h)
         IN  [called |-> TRUE, threw |-> FALSE, landmarks |-> outcome,
              wristPosition |-> wrist,
              braceletModel |-> placeBraceletOnWrist(model, wrist)]
  ELSE [called |-> TRUE, threw |-> FALSE, landmarks |-> outcome,
        wristPosition |-> NoVector, braceletModel |-> model]

\* Variant: the next frame is requested before detection as well as after it.
callbacksAfterFrameTwice(pending, threw) ==
  IF threw THEN (pending - 1) + 1 ELSE (pending - 1) + 2

Min(a, b) == IF a <= b THEN a ELSE b
Max(a, b) == IF a >= b THEN a ELSE b

\* The range of the vectors given to placeBraceletOnWrist while the model was
\* loaded, after one more call with this model and this vector.
rangeAfterPlacing(range, model, wrist) ==
  IF model # Null /\ wrist # NoVector
    THEN [lo |-> [i \in 1..3 |-> Min(range.lo[i], wrist[i])],
          hi |-> [i \in 1..3 |-> Max(range.hi[i], wrist[i])]]
    ELSE range

\* The callbacks pending after onVideoFrame ran: the one that ran is gone,
\* and the next is requested unless detectHandLandmarks threw.
callbacksAfterFrame(pending, threw) ==
  IF threw THEN pending - 1 ELSE (pending - 1) + 1

\* onVideoFrame(time): the video element delivers a frame to the pending
\* callback.
onVideoFrame ==
  /\ videoFrameCallbacks > 0
  /\ time < MaxTime
  /\ \E outcome \in DetectorOutcomes :
       LET d == detectHandLandmarks(handLandmarker, outcome, width, height,
                                    braceletModel)
       IN  /\ landmarks' = d.landmarks
           /\ wristPosition' = d.wristPosition
           /\ braceletModel' = d.braceletModel
           /\ targetRange' = rangeAfterPlacing(targetRange, braceletModel,
                                               d.wristPosition)
           /\ videoFrameCallbacks' = callbacksAfterFrame(videoFrameCallbacks, d.threw)
  /\ time' = time + 1
  /\ lastEvent' = "frame"
  /\ UNCHANGED <<sceneVars, loadState, sceneChildren, handLandmarker, stream, pc>>

\* ----------------------------------------------------------------- runDemo
\* getUserMedia resolves: streamWebcamThroughHandLandmarker attaches the
\* stream and requests the first frame; runDemo goes on to call
\* FilesetResolver.forVisionTasks.
cameraGranted ==
  /\ pc = "getUserMedia"
  /\ stream' = TRUE
  /\ videoFrameCallbacks' = videoFrameCallbacks + 1
  /\ pc' = "forVisionTasks"
  /\ lastEvent' = "camera"
  /\ UNCHANGED <<sceneVars, braceletVars, frameVars, handLandmarker>>

\* Variant: the rejection is swallowed where the stream is requested and the
\* first frame callback is requested all the same.
cameraDeniedStillRequestsFrames ==
  /\ pc = "getUserMedia"
  /\ pc' = "rejected"
  /\ videoFrameCallbacks' = videoFrameCallbacks + 1
  /\ lastEvent' = "cameraDenied"
  /\ UNCHANGED <<sceneVars, braceletVars, frameVars, handLandmarker, stream>>

\* getUserMedia rejects: streamWebcamThroughHandLandmarker and runDemo
\* reject with it.
cameraDenied ==
  /\ pc = "getUserMedia"
  /\ pc' = "rejected"
  /\ lastEvent' = "cameraDenied"
  /\ UNCHANGED <<sceneVars, braceletVars, frameVars, handLandmarker, stream,
                 videoFrameCallbacks>>

\* forVisionTasks resolves: runDemo calls HandLandmarker.createFromModelPath.
visionResolved ==
  /\ pc = "forVisionTasks"
  /\ pc' = "createFromModelPath"
  /\ lastEvent' = "vision"
  /\ UNCHANGED <<sceneVars, braceletVars, frameVars, handLandmarker, stream,
                 videoFrameCallbacks>>

\* createFromModelPath resolves: runDemo assigns handLandmarker and calls
\* setOptions.
landmarkerCreated ==
  /\ pc = "createFromModelPath"
  /\ handLandmarker' = [ref |-> "handLandmarker", configured |-> FALSE]
  /\ pc' = "setOptions"
  /\ lastEvent' = "created"
  /\ UNCHANGED <<sceneVars, braceletVars, frameVars, stream, videoFrameCallbacks>>

\* setOptions resolves: runDemo logs and returns.
optionsSet ==
  /\ pc = "setOptions"
  /\ handLandmarker' = [handLandmarker EXCEPT !.configured = TRUE]
  /\ pc' = "done"
  /\ lastEvent' = "options"
  /\ UNCHANGED <<sceneVars, braceletVars, frameVars, stream, videoFrameCallbacks>>

\* One of the three awaited initialization steps rejects: runDemo rejects
\* and keeps what it had assigned.
initFailed ==
  /\ pc \in {"forVisionTasks", "createFromModelPath", "setOptions"}
  /\ pc' = "rejected"
  /\ lastEvent' = "initFailed"
  /\ UNCHANGED <<sceneVars, braceletVars, frameVars, handLandmarker, stream,
                 videoFrameCallbacks>>

\* ------------------------------------------------------------ specification
Next ==
  \/ render
  \/ resize
  \/ loadModelSuccess
  \/ loadModelError
  \/ onVideoFrame
  \/ cameraGranted
  \/ cameraDenied
  \/ visionResolved
  \/ landmarkerCreated
  \/ optionsSet
  \/ initFailed

Spec == Init /\ [][Next]_vars

\* Smoothing on its own: a session with the detector ready and the model
\* loaded, the model at some position, and one fixed world target that every
\* update is given.
SmoothInit ==
  /\ window = <<1280, 720>>
  /\ height = window[2]
  /\ width = (height * 1280) \div 720
  /\ camera = PerspectiveCamera(CameraFov, Ratio(width, height), CameraNear, CameraFar)
  /\ rendererSize = <<width, height>>
  /\ inputFramesPlane = createCameraPlaneMesh(camera, inputFramesDepth)
  /\ sceneChildren = {"ambientLight", "directionalLight", "inputFramesPlane",
                      "braceletModel"}
  /\ animationFrames = 1
  /\ canvas = draw(rendererSize, camera, Null)
  /\ loadState = "loaded"
  /\ \E x, y \in SmoothCoordinates, dz \in {0, 7} :
       braceletModel = [GltfScene EXCEPT
                          !.position = <<x, y, dz - WristDepth>>,
                          !.scale = <<BraceletScale, BraceletScale, BraceletScale>>]
  /\ handLandmarker = [ref |-> "handLandmarker", configured |-> TRUE]
  /\ stream = TRUE
  /\ videoFrameCallbacks = 1
  /\ pc = "done"
  /\ time = 0
  /\ landmarks = [kind |-> "noframe"]
  /\ \E x, y \in SmoothCoordinates : wristPosition = <<x, y, -WristDepth>>
  /\ targetRange = [lo |-> Zero3, hi |-> Zero3]
  /\ lastEvent = "constructor"

\* One more call of placeBraceletOnWrist with the same target.
smoothUpdate ==
  /\ time < MaxUpdates
  /\ braceletModel' = placeBraceletOnWrist(braceletModel, wristPosition)
  /\ time' = time + 1
  /\ lastEvent' = "frame"
  /\ UNCHANGED <<sceneVars, loadState, sceneChildren, demoVars, landmarks,
                 wristPosition, targetRange>>

SmoothNext == smoothUpdate

SmoothSpec == SmoothInit /\ [][SmoothNext]_vars

TypeOK ==
  /\ window \in WindowSizes
  /\ animationFrames \in 0..1
  /\ videoFrameCallbacks \in 0..1
  /\ time \in 0..MaxTime
  /\ loadState \in {"loading", "loaded", "failed"}
  /\ pc \in {"getUserMedia", "forVisionTasks", "createFromModelPath",
             "setOptions", "done", "rejected"}

\* ------------------------------------------------------------------ claims
\* A step that is the delivery of a video frame.
FrameStep == time' = time + 1

\* m is the midpoint of a and b, up to the rounding of one unit.
Halfway(a, b, m) == Abs(2 * m - (a + b)) <= 1

HalfwayVector(p, v, m) == \A i \in 1..3 : Halfway(p[i], v[i], m[i])

\* (c - 0.5) * extent, for an extent given in 1/Unit.
centredWorld(c, extent) == RoundDiv((2 * c - LandmarkScale) * extent, 2 * LandmarkScale)

\* The landmark (0.6, 0.4).
Landmark64 == [kind |-> "wrist", x |-> 6, y |-> 4]

\* C1: once streaming has started, every delivered frame, whatever the
\* detector did with it (wrist, no wrist, failure), ends with the frame
\* callback registered again for the next frame.
FrameCallbackAlwaysReregistered ==
  (stream /\ lastEvent = "frame") => videoFrameCallbacks = 1

\* C2: the detector's detect operation is invoked only on frames delivered
\* after detector initialization (file set, model creation, options) has
\* completed; earlier frames are dropped.
DetectOnlyAfterInitialization ==
  landmarks.kind \in {"throw", "nowrist", "wrist"} => pc = "done"

\* C3: a delivered frame that reports no wrist landmark leaves the overlay's
\* pose (the model, its position and orientation) as it was and builds no
\* world target; so does any run of N such frames.
MissingDetectionKeepsPose ==
  [][(FrameStep /\ landmarks'.kind = "nowrist")
       => (braceletModel' = braceletModel /\ wristPosition' = NoVector)]_vars

\* C3 witness: a frame without a wrist has been processed while the model
\* was placed away from the origin.
MissingDetectionWitness ==
  /\ lastEvent = "frame"
  /\ landmarks.kind = "nowrist"
  /\ braceletModel # Null
  /\ braceletModel.position # Zero3

SameLandmarkTwice ==
  /\ time = 1 /\ time' = 2
  /\ landmarks = Landmark64 /\ landmarks' = Landmark64
  /\ wristPosition' = wristPosition
  /\ braceletModel # Null
  /\ braceletModel.rotation = RotationPi

TargetScaledByFrustumExtent ==
  landmarks.kind = "wrist"
    => LET extent == getViewportSizeAtDepth(camera, inputFramesDepth)
       IN  wristPosition = << centredWorld(landmarks.x, extent[1]),
                              -centredWorld(landmarks.y, extent[2]),
                              -inputFramesDepth >>

\* C7: the landmark (0.5, 0.5) maps to (0, 0, -depth), whatever the size of
\* the viewport and whatever resizes came before.
CentreMapsToOpticalAxis ==
  (landmarks.kind = "wrist" /\ landmarks.x = 5 /\ landmarks.y = 5)
    => wristPosition = <<0, 0, -inputFramesDepth>>

\* C7 witness: the centre landmark was mapped after a resize had changed the
\* scene from its initial 16:9 size.
CentreAfterResizeWitness ==
  /\ landmarks.kind = "wrist" /\ landmarks.x = 5 /\ landmarks.y = 5
  /\ wristPosition # NoVector
  /\ width * 720 # height * 1280

\* C8: the depth component of every world target is the depth at which the
\* backdrop plane was placed, on the negative z axis.
TargetDepthIsPlaneDepth ==
  wristPosition # NoVector
    => /\ wristPosition[3] = inputFramesPlane.z
       /\ wristPosition[3] = -inputFramesDepth

\* C8 witness: a target off the optical axis was built after a resize.
TargetDepthWitness ==
  /\ wristPosition # NoVector
  /\ wristPosition[1] # 0
  /\ width * 720 # height * 1280

\* C9: a resize that follows a resize with the same window size leaves the
\* scene width and height, the camera (aspect and projection) and the output
\* size as the first one left them.
ResizeIdempotent ==
  [][(lastEvent = "resize" /\ lastEvent' = "resize" /\ window' = window)
       => /\ width' = width /\ height' = height
          /\ camera' = camera
          /\ rendererSize' = rendererSize]_vars

\* C9 witness: a resize has been applied that changed the scene's size.
ResizeWitness ==
  /\ lastEvent = "resize"
  /\ width = window[1] /\ height = window[2]
  /\ width * 720 # height * 1280

\* C10: the backdrop plane keeps the geometry it was given at construction
\* (the 1280:720 frustum extent at the compositing depth), while a resize
\* sets the camera aspect, the projection and the output size from the window.
ResizeKeepsPlaneGeometry ==
  /\ inputFramesPlane.height = RoundDiv(2 * inputFramesDepth * TanHalfFov(CameraFov), Unit)
  /\ inputFramesPlane.width = RoundDiv(inputFramesPlane.height * 1280, 720)
  /\ inputFramesPlane.z = -inputFramesDepth
  /\ lastEvent = "resize"
       => /\ camera.aspect = Ratio(window[1], window[2])
          /\ camera.projection = camera.aspect
          /\ rendererSize = window

\* C10 witness: after a resize the camera's aspect is no longer the plane's.
ResizeKeepsPlaneWitness ==
  /\ lastEvent = "resize"
  /\ camera.aspect # <<16, 9>>
  /\ inputFramesPlane.width * 9 > inputFramesPlane.height * 16 - 16

\* C11: once the asset load has failed, the model stays absent and is never
\* attached to the scene, the load is not started again, and both the render
\* loop and the frame-detection loop keep their callback pending.
LoadFailureLeavesLoopsRunning ==
  loadState = "failed"
    => /\ braceletModel = Null
       /\ "braceletModel" \notin sceneChildren
       /\ animationFrames = 1
       /\ stream => videoFrameCallbacks = 1

\* C12: while the model is absent, a frame that carries a wrist landmark
\* changes nothing of the overlay (model, scene children, load state) and
\* raises no error, so the frame callback is pending again; a render step
\* with the model absent runs and reschedules as usual.
PoseIgnoredWhileModelAbsent ==
  [][/\ (FrameStep /\ landmarks'.kind = "wrist" /\ braceletModel = Null)
          => /\ braceletModel' = Null
             /\ sceneChildren' = sceneChildren
             /\ loadState' = loadState
             /\ videoFrameCallbacks' = 1
     /\ (lastEvent' = "render" /\ braceletModel = Null)
          => /\ braceletModel' = Null
             /\ animationFrames' = 1]_vars

\* C12 witness: a wrist frame was processed while the load was still pending,
\* and the frame callback is pending again.
PoseIgnoredWitness ==
  /\ lastEvent = "frame"
  /\ landmarks.kind = "wrist"
  /\ wristPosition # NoVector
  /\ loadState = "loading"
  /\ braceletModel = Null
  /\ videoFrameCallbacks = 1

\* runDemo was rejected by getUserMedia: no stream was ever attached.
CameraDenied == pc = "rejected" /\ ~stream

\* C13: after a camera-access denial runDemo has failed and stays failed;
\* no frame callback is registered, no frame is processed, the detector is
\* never created, no detection result or world target exists and the model,
\* if loaded, is still as the loader left it.
CameraDenialIsFatal ==
  /\ [](CameraDenied
          => /\ videoFrameCallbacks = 0
             /\ handLandmarker = Null
             /\ time = 0
             /\ landmarks.kind = "noframe"
             /\ wristPosition = NoVector
             /\ braceletModel # Null
                  => (braceletModel.position = Zero3 /\ braceletModel.rotation = Zero3))
  /\ [][CameraDenied => CameraDenied']_vars

\* C13 witness: the camera was denied, and the asset load and the render loop
\* went on afterwards.
CameraDenialWitness ==
  /\ CameraDenied
  /\ loadState = "loaded"
  /\ lastEvent = "render"

\* runDemo was rejected by one of the detector's initialization steps.
InitializationFailed == pc = "rejected" /\ stream

\* C14: after detector initialization has failed at any of its steps, every
\* later frame is dropped without calling detect and without changing the
\* pose, and initialization is not attempted again.
InitFailureStopsDetection ==
  [][InitializationFailed
       => /\ InitializationFailed'
          /\ FrameStep => /\ landmarks'.kind = "dropped"
                          /\ braceletModel' = braceletModel]_vars

\* C15: at most one frame callback is pending in every state; a detection
\* result (landmarks, world target) and the pose computed from it change only
\* in the step that delivers one frame to the one pending callback, frames
\* being counted one by one; detection starts and ends inside that step, so
\* no two detector calls overlap and no result is applied out of order.
OneFrameAtATime ==
  /\ [](videoFrameCallbacks \in {0, 1})
  /\ [][(landmarks' # landmarks \/ wristPosition' # wristPosition
           \/ time' # time
           \/ (braceletModel # Null /\ braceletModel' # braceletModel))
          => /\ videoFrameCallbacks = 1
             /\ time' = time + 1
             /\ lastEvent' = "frame"
             /\ videoFrameCallbacks' <= 1]_vars

\* C15 witness: two frames have been processed, both applied to the loaded
\* model, with one callback pending for the third.
OneFrameAtATimeWitness ==
  /\ time = 2
  /\ lastEvent = "frame"
  /\ videoFrameCallbacks = 1
  /\ braceletModel # Null
  /\ braceletModel.position[3] = -((3 * WristDepth) \div 4)

\* a lies between b and c, ends included.
Between(a, b, c) == (b <= a /\ a <= c) \/ (c <= a /\ a <= b)

\* C16 as stated: after the bounded number of updates with the same target
\* the pose equals the target.
SmoothingReachesTarget ==
  time = MaxUpdates => braceletModel.position = wristPosition

\* C16 amended: after the bounded number of updates every coordinate is the
\* target or the representable value next to it and a further update leaves
\* it there; each update leaves every coordinate between its previous value
\* and the target.
SmoothingSettlesNextToTarget ==
  /\ [](time = MaxUpdates
          => /\ \A i \in 1..3 :
                  Abs(braceletModel.position[i] - wristPosition[i]) <= 1
             /\ placeBraceletOnWrist(braceletModel, wristPosition) = braceletModel)
  /\ [][time' = time + 1
          => \A i \in 1..3 :
               /\ Between(braceletModel'.position[i],
                          braceletModel.position[i], wristPosition[i])
               /\ Abs(wristPosition[i] - braceletModel'.position[i])
                    <= Abs(wristPosition[i] - braceletModel.position[i])]_vars

\* C16 witness: the updates have ended with a coordinate on the target and
\* another next to it, starting away from both.
SmoothingWitness ==
  /\ time = MaxUpdates
  /\ braceletModel.position[1] = wristPosition[1]
  /\ braceletModel.position[2] # wristPosition[2]
  /\ braceletModel.position[3] = wristPosition[3]

\* C17: exactly one render callback is pending in every state and the render
\* step can always run, whatever became of the camera, the detector, the
\* frames and the asset load; every render step draws the scene as it is and
\* leaves one callback pending; a resize draws once with the new size and
\* leaves the number of pending render callbacks as it was.
RenderLoopRunsAlone ==
  /\ [](animationFrames = 1 /\ ENABLED render)
  /\ [][lastEvent' = "render"
          => /\ canvas' = draw(rendererSize, camera, braceletModel)
             /\ animationFrames' = 1]_vars
  /\ [][lastEvent' = "resize"
          => /\ canvas' = draw(window', camera', braceletModel)
             /\ animationFrames' = animationFrames]_vars

\* C17 witness: the render loop has just drawn although the camera start-up
\* was rejected, the asset load failed and the window was resized.
RenderLoopWitness ==
  /\ lastEvent = "render"
  /\ animationFrames = 1
  /\ pc = "rejected"
  /\ loadState = "failed"
  /\ rendererSize = window
  /\ width * 720 # height * 1280

\* C18: the position and orientation of a loaded model change only in the
\* step that delivers a frame carrying a wrist landmark, once in that step,
\* and that step sets the fixed orientation; render steps, resizes, the steps
\* of runDemo and frames without a wrist leave them as they are.
PoseWrittenOnlyByWristFrames ==
  [][/\ (braceletModel # Null /\ braceletModel' # braceletModel)
          => /\ lastEvent' = "frame"
             /\ time' = time + 1
             /\ landmarks'.kind = "wrist"
             /\ braceletModel'.rotation = RotationPi
             /\ braceletModel'.position
                  = [i \in 1..3 |-> RoundDiv(braceletModel.position[i]
                                               + wristPosition'[i], 2)]
     /\ (braceletModel # Null /\ FrameStep /\ landmarks'.kind = "wrist")
          => braceletModel'.rotation = RotationPi]_vars

\* C18 witness: the model was placed by a wrist frame and a resize that came
\* afterwards left it where it was, away from the origin.
PoseWrittenWitness ==
  /\ lastEvent = "resize"
  /\ braceletModel # Null
  /\ braceletModel.rotation = RotationPi
  /\ braceletModel.position[1] # 0
  /\ canvas.model = braceletModel

\* The model is in the scene graph.
Attached == "braceletModel" \in sceneChildren

\* C19: the model reference is present exactly when the load has succeeded and
\* exactly when the model is attached to the scene; the load state only
\* goes from loading to loaded or to failed and stays there; a present model
\* stays the same object, attached; a failed load leaves it absent.
AssetLifecycleMonotone ==
  /\ []((braceletModel # Null) = (loadState = "loaded"))
  /\ []((braceletModel # Null) = Attached)
  /\ [][/\ loadState # "loading" => loadState' = loadState
        /\ loadState' # loadState => lastEvent' \in {"load", "loadError"}
        /\ braceletModel # Null
             => /\ braceletModel' # Null
                /\ braceletModel'.ref = braceletModel.ref
                /\ braceletModel'.scale = braceletModel.scale
                /\ Attached']_vars

\* C19 witness: the loaded model is attached and has been placed by a frame.
AssetLifecycleWitness ==
  /\ loadState = "loaded"
  /\ Attached
  /\ braceletModel.rotation = RotationPi
  /\ time = 2

\* C20: the model is attached at the origin, unrotated, whatever world target
\* the frames before the load built; it stays there until a frame gives it a
\* world target; afterwards every coordinate of its position lies between the
\* least and the greatest of the origin and the targets it was given since
\* the load, its depth between minus the compositing depth and zero.
PoseWithinTargetsSinceLoad ==
  /\ [][lastEvent' = "load"
          => /\ braceletModel'.position = Zero3
             /\ braceletModel'.rotation = Zero3
             /\ targetRange' = [lo |-> Zero3, hi |-> Zero3]]_vars
  /\ []((braceletModel # Null /\ braceletModel.rotation = Zero3)
          => braceletModel.position = Zero3)
  /\ [](braceletModel # Null
          => /\ \A i \in 1..3 :
                  /\ targetRange.lo[i] <= braceletModel.position[i]
                  /\ braceletModel.position[i] <= targetRange.hi[i]
             /\ -inputFramesDepth <= braceletModel.position[3]
             /\ braceletModel.position[3] <= 0)
  /\ [](braceletModel = Null => targetRange = [lo |-> Zero3, hi |-> Zero3])

\* C20 witness: a frame built a world target off the axis while the load was
\* pending, and the model has just been attached, at the origin.
PoseWithinTargetsWitness ==
  /\ lastEvent = "load"
  /\ wristPosition # NoVector
  /\ wristPosition[1] # 0
  /\ braceletModel.position = Zero3

=============================================================================
